---- MODULE Spec2Model ----
(***************************************************************************)
(* The round engine of src/index.js: one DeathGame session (class          *)
(* DeathGame), the socket handler 'submitNumber' that drives it, and the   *)
(* delayed next-round callbacks the handler arms with setTimeout.          *)
(*                                                                         *)
(* Node runs every handler and every timer callback to completion, so each *)
(* of them is one atomic action.                                           *)
(*                                                                         *)
(* Arithmetic.  The code computes avg = sum / length and target = avg*0.8  *)
(* in IEEE doubles and compares Math.abs(number - target).  For the        *)
(* integer submissions drawn here every comparison the code makes has the  *)
(* same outcome as in exact arithmetic (an exact tie or an exact           *)
(* number === target forces target to be an integer or half-integer, which *)
(* the double product yields exactly), so distances are kept exact by      *)
(* scaling with 5 * length:  5*length*|number - target|                    *)
(*                          = |5*length*number - 4*sum|.                   *)
(***************************************************************************)
EXTENDS Integers, Sequences, FiniteSets, TLC

\* Quorum of a room: `room.players.size === 5` starts the game.
Quorum == 5

\* Elimination floor: `player.points <= -10`.
Floor == -10

\* The only room code of the model.
Room == "ROOM"

\* Socket ids.  1..Quorum are the ids of the session's players, in the
\* insertion order of the players Map; Quorum + 1 is a connection that is
\* not a player of the session.
Players == 1..Quorum
Sockets == 1..(Quorum + 1)

\* `null` for closestPlayer / winner.
Null == 0

\* Numbers the clients submit.
Values == {0, 100}

VARIABLES
    waitingRooms,     \* waitingRooms: room code -> ids of room.players
    reply,            \* what createRoom / joinRoom last emitted to its socket
    players,          \* ids of DeathGame.players ({} before the session)
    games,            \* games: the room codes that hold an active DeathGame
    points,           \* Player.points of each player of the session
    isAlive,          \* Player.isAlive of each player of the session
    round,            \* DeathGame.round
    eliminatedCount,  \* DeathGame.eliminatedCount
    currentPhase,     \* DeathGame.currentPhase
    roundNumbers,     \* DeathGame.roundNumbers, a Map in insertion order
    timers,           \* number of pending setTimeout next-round callbacks
    results           \* the object the last calculateRoundResults returned

vars == <<waitingRooms, reply, players, games, points, isAlive, round,
          eliminatedCount, currentPhase, roundNumbers, timers, results>>

\* What the submitNumber handler and the next-round callback never touch.
lobbyVars == <<waitingRooms, reply, players>>

\* `new Map()` for waitingRooms.
NoRooms == [code \in {} |-> {}]

----------------------------------------------------------------------------
(* Helpers over the Map roundNumbers: a sequence of [id, number] entries.  *)

Keys(rn) == {rn[i].id : i \in 1..Len(rn)}

\* Map.prototype.set: a new key is appended, an existing key keeps its
\* position and takes the new value.
MapSet(rn, id, number) ==
    IF id \in Keys(rn)
    THEN [i \in 1..Len(rn) |->
             IF rn[i].id = id THEN [id |-> id, number |-> number] ELSE rn[i]]
    ELSE Append(rn, [id |-> id, number |-> number])

\* Array.from(this.roundNumbers.values())
NumbersOf(rn) == [i \in 1..Len(rn) |-> rn[i].number]

RECURSIVE SumSeq(_)
SumSeq(s) == IF s = <<>> THEN 0 ELSE Head(s) + SumSeq(Tail(s))

Abs(x) == IF x < 0 THEN -x ELSE x

\* getAlivePlayers()
GetAlivePlayers(alive) == {p \in Players : alive[p]}

AliveCount(alive) == Cardinality(GetAlivePlayers(alive))

----------------------------------------------------------------------------
(* submitNumber(playerId, number): the two early returns and the test it   *)
(* returns.                                                                *)

\* `this.players.get(playerId)?.isAlive`: undefined for an id that is not
\* a player of the session.
MaySubmitAnyPlayer(alive, id) == id \in Players
MaySubmit(alive, id) == id \in Players /\ alive[id]

\* `this.roundNumbers.size === this.getAlivePlayers().length`
AllSubmittedAtLeast(rn, alive) == Len(rn) >= AliveCount(alive)
AllSubmitted(rn, alive) == Len(rn) = AliveCount(alive)

----------------------------------------------------------------------------
(* calculateRoundResults()                                                 *)

\* `numbers.filter((num, index) => numbers.indexOf(num) !== index)`: the
\* values that occur again after their first occurrence.
Duplicates(numbers) ==
    {numbers[i] : i \in {k \in 1..Len(numbers) :
                            \E j \in 1..(k - 1) : numbers[j] = numbers[k]}}

\* The special rule for 2 players applies:
\* alive = 2 and numbers.includes(0) and numbers.includes(100).
SpecialRule(rn, alive) ==
    /\ AliveCount(alive) = 2
    /\ \E i \in 1..Len(rn) : rn[i].number = 0
    /\ \E i \in 1..Len(rn) : rn[i].number = 100

\* `entries().find(([_, num]) => num === 100)[0]`: the first entry with 100.
SpecialWinnerZero(rn) ==
    rn[CHOOSE i \in 1..Len(rn) :
          /\ rn[i].number = 0
          /\ \A j \in 1..(i - 1) : rn[j].number # 0].id
SpecialWinner(rn) ==
    rn[CHOOSE i \in 1..Len(rn) :
          /\ rn[i].number = 100
          /\ \A j \in 1..(i - 1) : rn[j].number # 100].id

\* 5 * length * Math.abs(number - target), target = (sum / length) * 0.8.
Distance(rn, number) ==
    Abs(5 * Len(rn) * number - 4 * SumSeq(NumbersOf(rn)))

\* `number === target`
IsTarget(rn, number) == 5 * Len(rn) * number = 4 * SumSeq(NumbersOf(rn))

\* `duplicates.includes(number) && this.getAlivePlayers().length <= 4`:
\* the entry is skipped by the winner loop.
SkippedBelowFour(rn, alive, number) ==
    number \in Duplicates(NumbersOf(rn)) /\ AliveCount(alive) < 4
Skipped(rn, alive, number) ==
    number \in Duplicates(NumbersOf(rn)) /\ AliveCount(alive) <= 4

\* The winner loop from entry i on, with closestPlayer = best (Null while
\* closestDistance is Infinity) and closestDistance = bestDist.
RECURSIVE ClosestFromLast(_, _, _, _, _)
ClosestFromLast(rn, alive, i, best, bestDist) ==
    IF i > Len(rn) THEN best
    ELSE IF Skipped(rn, alive, rn[i].number)
         THEN ClosestFromLast(rn, alive, i + 1, best, bestDist)
         ELSE LET distance == Distance(rn, rn[i].number)
              IN IF best = Null \/ distance <= bestDist
                 THEN ClosestFromLast(rn, alive, i + 1, rn[i].id, distance)
                 ELSE ClosestFromLast(rn, alive, i + 1, best, bestDist)

RECURSIVE ClosestFrom(_, _, _, _, _)
ClosestFrom(rn, alive, i, best, bestDist) ==
    IF i > Len(rn) THEN best
    ELSE IF Skipped(rn, alive, rn[i].number)
         THEN ClosestFrom(rn, alive, i + 1, best, bestDist)
         ELSE LET distance == Distance(rn, rn[i].number)
              IN IF best = Null \/ distance < bestDist
                 THEN ClosestFrom(rn, alive, i + 1, rn[i].id, distance)
                 ELSE ClosestFrom(rn, alive, i + 1, best, bestDist)

ClosestPlayer(rn, alive) == ClosestFrom(rn, alive, 1, Null, 0)

\* `let penalty = -1; if (alive === 3 && number === target) penalty *= 2;`
PenaltyReward(rn, alive, number) == 1
PenaltyAlwaysOne(rn, alive, number) == -1
Penalty(rn, alive, number) ==
    IF AliveCount(alive) = 3 /\ IsTarget(rn, number) THEN -2 ELSE -1

\* The penalty loop: every entry whose player is not closestPlayer.
ApplyPenaltiesAll(pts, rn, alive, closest) ==
    [p \in Players |-> IF p # closest THEN pts[p] - 1 ELSE pts[p]]
ApplyPenalties(pts, rn, alive, closest) ==
    [p \in Players |->
        IF \E i \in 1..Len(rn) : rn[i].id = p /\ p # closest
        THEN pts[p] + Penalty(rn, alive,
                 rn[CHOOSE i \in 1..Len(rn) : rn[i].id = p].number)
        ELSE pts[p]]

\* `player.isAlive && player.points <= -10`
ToEliminateBelowFloor(alive, pts) == {p \in Players : alive[p] /\ pts[p] < Floor}
ToEliminate(alive, pts) == {p \in Players : alive[p] /\ pts[p] <= Floor}

\* `this.eliminatedCount++` once per newly eliminated player.
CountEliminatedOnce(count, eliminations) ==
    IF eliminations = {} THEN count ELSE count + 1
CountEliminated(count, eliminations) == count + Cardinality(eliminations)

\* `gameOver: this.getAlivePlayers().length <= 1`
GameOverNoSurvivor(alive) == AliveCount(alive) < 1
GameOver(alive) == AliveCount(alive) <= 1

NoResults ==
    [winner |-> Null, gameOver |-> FALSE, specialRule |-> FALSE,
     eliminations |-> {}]

\* calculateRoundResults() on the Map rn: the next points, isAlive and
\* eliminatedCount and the object returned.  currentPhase, round and
\* roundNumbers are not assigned.
CalculateRoundResults(rn) ==
    IF SpecialRule(rn, isAlive)
    THEN /\ results' = [winner |-> SpecialWinner(rn), gameOver |-> TRUE,
                        specialRule |-> TRUE, eliminations |-> {}]
         /\ UNCHANGED <<points, isAlive, eliminatedCount>>
    ELSE LET closest == ClosestPlayer(rn, isAlive)
             pts == ApplyPenalties(points, rn, isAlive, closest)
             out == ToEliminate(isAlive, pts)
             alive == [p \in Players |-> isAlive[p] /\ p \notin out]
         IN /\ points' = pts
            /\ isAlive' = alive
            /\ eliminatedCount' = CountEliminated(eliminatedCount, out)
            /\ results' = [winner |-> closest, gameOver |-> GameOver(alive),
                           specialRule |-> FALSE, eliminations |-> out]

----------------------------------------------------------------------------
(* The handlers.                                                           *)

\* socket.on('submitNumber') from socket id with the model's room code.
SubmitNumber(id, number) ==
    IF Room \notin games
    THEN UNCHANGED vars                           \* `if (!game) return;`
    ELSE IF currentPhase # "playing" \/ ~MaySubmit(isAlive, id)
    THEN UNCHANGED vars                           \* submitNumber: false
    ELSE LET rn == MapSet(roundNumbers, id, number)
         IN /\ roundNumbers' = rn
            /\ UNCHANGED <<round, currentPhase>>
            /\ UNCHANGED lobbyVars
            /\ IF AllSubmitted(rn, isAlive)
               THEN /\ CalculateRoundResults(rn)
                    /\ IF results'.gameOver
                       THEN /\ games' = games \ {Room}
                            /\ UNCHANGED timers
                       ELSE /\ timers' = timers + 1
                            /\ UNCHANGED games
               ELSE UNCHANGED <<games, points, isAlive, eliminatedCount,
                                timers, results>>

\* The callback of `setTimeout(..., 10000)`: game.round++; startRound().
NextRoundTimerRevives ==
    /\ timers > 0
    /\ timers' = timers - 1
    /\ round' = round + 1
    /\ currentPhase' = "playing"
    /\ roundNumbers' = <<>>
    /\ isAlive' = [p \in Players |-> TRUE]
    /\ UNCHANGED <<games, points, eliminatedCount, results>>
    /\ UNCHANGED lobbyVars
NextRoundTimerKeepsNumbers ==
    /\ timers > 0
    /\ timers' = timers - 1
    /\ round' = round + 1
    /\ currentPhase' = "playing"
    /\ UNCHANGED <<games, points, isAlive, eliminatedCount, results>>
    /\ UNCHANGED <<roundNumbers, waitingRooms, reply, players>>
NextRoundTimer ==
    /\ timers > 0
    /\ timers' = timers - 1
    /\ round' = round + 1
    /\ currentPhase' = "playing"
    /\ roundNumbers' = <<>>
    /\ UNCHANGED <<games, points, isAlive, eliminatedCount, results>>
    /\ UNCHANGED lobbyVars

----------------------------------------------------------------------------
(* Initial states: the session at the start of a round, no callback        *)
(* pending, after rounds in which all 5 players were alive.  With 5 alive  *)
(* players no entry is skipped by the winner loop, so each such round has  *)
(* exactly one winner and the four others lose one point: after k <= 10    *)
(* rounds a player who won w of them has w - k points, and the players     *)
(* who lost all of 10 rounds were eliminated by the 10th resolution.  Any  *)
(* player can be made the winner of a round (all submit the same number    *)
(* and the player submits first).  A tally gives every player's wins.      *)

StartTallies ==
    {<<9, 0, 0, 0, 0>>, <<4, 4, 1, 1, 0>>, <<6, 3, 1, 0, 0>>}

\* The session at the start of round played + 1 after the rounds of `wins`.
RoundStart(wins) ==
    LET played == SumSeq(wins)
    IN /\ waitingRooms = NoRooms
       /\ reply = "joinedRoom"
       /\ players = Players
       /\ games = {Room}
       /\ points = [p \in Players |-> wins[p] - played]
       /\ isAlive = [p \in Players |-> wins[p] - played > Floor]
       /\ round = played + 1
       /\ eliminatedCount =
              Cardinality({p \in Players : wins[p] - played <= Floor})
       /\ currentPhase = "playing"
       /\ timers = 0
       /\ results = NoResults

Init ==
    \E wins \in StartTallies : RoundStart(wins) /\ roundNumbers = <<>>

Next ==
    \/ \E id \in Sockets, number \in Values : SubmitNumber(id, number)
    \/ NextRoundTimer

Spec == Init /\ [][Next]_vars

\* A first submitNumber of the round by some player.
FirstSubmission ==
    \E id \in Players, number \in Values :
        /\ id \notin Keys(roundNumbers)
        /\ SubmitNumber(id, number)

\* The session with its scheduling, from the tallies that leave 4 and 3
\* players alive: an armed setTimeout callback runs, and while some player
\* can still submit in the round, one of them does.
FairTallies == {<<4, 4, 1, 1, 0>>, <<6, 3, 1, 0, 0>>}

InitFair ==
    \E wins \in FairTallies : RoundStart(wins) /\ roundNumbers = <<>>

FairSpec ==
    /\ InitFair
    /\ [][Next]_vars
    /\ WF_vars(NextRoundTimer)
    /\ WF_vars(FirstSubmission)

----------------------------------------------------------------------------
(* The resolution alone, on a wider range of numbers: the session one      *)
(* submission before a round is complete, and the submitNumber event that  *)
(* completes and resolves it.                                              *)

ResolveValues == {0, 4, 7, 100}

ResolveTallies ==
    {<<2, 2, 2, 3, 1>>, <<4, 4, 1, 1, 0>>, <<6, 3, 1, 0, 0>>,
     <<5, 5, 0, 0, 0>>}

\* The ids of S in ascending (up) or descending order.
RECURSIVE Ordered(_, _)
Ordered(S, up) ==
    IF S = {} THEN <<>>
    ELSE LET m == CHOOSE x \in S : \A y \in S : IF up THEN x <= y ELSE x >= y
         IN <<m>> \o Ordered(S \ {m}, up)

InitResolve ==
    \E wins \in ResolveTallies :
        /\ RoundStart(wins)
        /\ \E last \in GetAlivePlayers(isAlive), up \in BOOLEAN :
              LET order == Ordered(GetAlivePlayers(isAlive) \ {last}, up)
              IN \E number \in [1..Len(order) -> ResolveValues] :
                    roundNumbers =
                        [i \in 1..Len(order) |->
                            [id |-> order[i], number |-> number[i]]]

NextResolve ==
    \E id \in Players, number \in ResolveValues :
        /\ id \notin Keys(roundNumbers)
        /\ SubmitNumber(id, number)

SpecResolve == InitResolve /\ [][NextResolve]_vars

----------------------------------------------------------------------------
(* The winner selection on numbers that tie: the session one submission    *)
(* before a round is complete, and the submitNumber events, resubmissions  *)
(* included, up to the resolution of that round.  With 3 alive players the *)
(* numbers 3, 5, 7 have target 4, at distance 1 from both 3 and 5.         *)

TieValues == {3, 5, 7}

InitTie ==
    \E wins \in ResolveTallies :
        /\ RoundStart(wins)
        /\ \E last \in GetAlivePlayers(isAlive), up \in BOOLEAN :
              LET order == Ordered(GetAlivePlayers(isAlive) \ {last}, up)
              IN \E number \in [1..Len(order) -> TieValues] :
                    roundNumbers =
                        [i \in 1..Len(order) |->
                            [id |-> order[i], number |-> number[i]]]

NextTie ==
    \E id \in Players, number \in TieValues :
        /\ timers = 0
        /\ SubmitNumber(id, number)

SpecTie == InitTie /\ [][NextTie]_vars

----------------------------------------------------------------------------
(* The lobby: createRoom and joinRoom from the start of the process, and   *)
(* the session the fifth join creates.  generateRoomCode is taken to       *)
(* return the model's one room code, so a second createRoom replaces the   *)
(* waiting room of the first; it is not taken to return the code of a      *)
(* session already created.  The ids 1..Quorum name the sockets that get   *)
(* into the room: socket Quorum + 1 joins only where no room is waiting.   *)

\* The number submitted in the lobby's session.
LobbyValues == {0}

\* Pending callbacks and rounds up to which the lobby's session is played.
MaxTimers == 1
MaxRound == 2

\* socket.on('createRoom')
CreateRoom(id) ==
    /\ waitingRooms' =
          [code \in DOMAIN waitingRooms \cup {Room} |->
              IF code = Room THEN {id} ELSE waitingRooms[code]]
    /\ reply' = "roomCreated"
    /\ UNCHANGED <<players, games, points, isAlive, round, eliminatedCount,
                   currentPhase, roundNumbers, timers, results>>

\* `room.players.size >= 5`
RoomFull(ids) == Cardinality(ids) >= Quorum

\* `room.players.size === 5` after the join
FillsRoomAtFour(ids) == Cardinality(ids) >= Quorum - 1
FillsRoom(ids) == Cardinality(ids) = Quorum

\* socket.on('joinRoom') with the model's room code.
JoinRoom(id) ==
    IF Room \notin DOMAIN waitingRooms
    THEN /\ reply' = "Room not found"
         /\ UNCHANGED <<waitingRooms, players, games, points, isAlive, round,
                        eliminatedCount, currentPhase, roundNumbers, timers,
                        results>>
    ELSE IF RoomFull(waitingRooms[Room])
    THEN /\ reply' = "Room is full"
         /\ UNCHANGED <<waitingRooms, players, games, points, isAlive, round,
                        eliminatedCount, currentPhase, roundNumbers, timers,
                        results>>
    ELSE LET ids == waitingRooms[Room] \cup {id}
         IN /\ reply' = "joinedRoom"
            /\ IF FillsRoom(ids)
               THEN \* new DeathGame(room.players); games.set;
                    \* waitingRooms.delete; game.startRound()
                    /\ players' = ids
                    /\ games' = games \cup {Room}
                    /\ waitingRooms' =
                          [code \in DOMAIN waitingRooms \ {Room} |->
                              waitingRooms[code]]
                    /\ round' = 1
                    /\ eliminatedCount' = 0
                    /\ currentPhase' = "playing"
                    /\ roundNumbers' = <<>>
                    /\ UNCHANGED <<points, isAlive, timers, results>>
               ELSE /\ waitingRooms' = [waitingRooms EXCEPT ![Room] = ids]
                    /\ UNCHANGED <<players, games, points, isAlive, round,
                                   eliminatedCount, currentPhase,
                                   roundNumbers, timers, results>>

\* The process after startup: both registries empty, every Player as its
\* constructor leaves it (points 0, isAlive true).
InitLobby ==
    /\ waitingRooms = NoRooms
    /\ reply = "none"
    /\ players = {}
    /\ games = {}
    /\ points = [p \in Players |-> 0]
    /\ isAlive = [p \in Players |-> TRUE]
    /\ round = 1
    /\ eliminatedCount = 0
    /\ currentPhase = "waiting"
    /\ roundNumbers = <<>>
    /\ timers = 0
    /\ results = NoResults

NextLobby ==
    \/ \E id \in Players : players = {} /\ CreateRoom(id)
    \/ \E id \in Sockets :
          /\ id \in Players \/ Room \notin DOMAIN waitingRooms
          /\ JoinRoom(id)
    \/ \E id \in Sockets, number \in LobbyValues :
          timers < MaxTimers /\ SubmitNumber(id, number)
    \/ round < MaxRound /\ NextRoundTimer

SpecLobby == InitLobby /\ [][NextLobby]_vars

----------------------------------------------------------------------------
(* Properties.                                                             *)

\* A step in which calculateRoundResults ran: the handler then either armed
\* one more next-round callback or deleted the session from games.
Resolved == timers' = timers + 1 \/ games' # games

\* The numbers of the Map rn, as a set.
NumberSet(rn) == {rn[i].number : i \in 1..Len(rn)}

\* The number the Map rn holds for player p.
NumberOf(rn, p) == rn[CHOOSE i \in 1..Len(rn) : rn[i].id = p].number

\* The players whose number in rn is also held by another player.
Sharing(rn) ==
    {p \in Keys(rn) :
        \E q \in Keys(rn) : q # p /\ NumberOf(rn, q) = NumberOf(rn, p)}

\* The resolution of the Map rn with `alive` took the 2-player shortcut.
SuddenDeath(rn, alive) ==
    Cardinality({p \in Players : alive[p]}) = 2 /\ {0, 100} \subseteq NumberSet(rn)

\* C1: every step in which calculateRoundResults ran leaves the session in
\* phase roundEnd (no longer playing), the phase in which submitNumber
\* accepts nothing until the next startRound.
C1_RoundEndAfterResolution ==
    [][Resolved => currentPhase' = "roundEnd"]_vars

\* C2: in every reachable state a pending next-round callback belongs to a
\* session that is still in games.
C2_TimerOnlyForActiveSession == timers > 0 => Room \in games

\* C3: whenever calculateRoundResults runs, the keys of roundNumbers are
\* exactly the players alive at that moment.
C3_ResolvedOverAlivePlayers ==
    [][Resolved => /\ Keys(roundNumbers') = {p \in Players : isAlive[p]}
                   /\ Len(roundNumbers') = Cardinality({p \in Players : isAlive[p]})]_vars

\* C3 witness: a round was resolved a second time (two callbacks pending)
\* and the keys were the alive players.
C3_Witness ==
    /\ timers >= 2
    /\ Keys(roundNumbers) = {p \in Players : isAlive[p]}

\* C4: eliminatedCount is the number of players whose isAlive is false.
C4_EliminatedCountIsDeadCount ==
    eliminatedCount = Cardinality({p \in Players : ~isAlive[p]})

\* C4 witness: a resolution eliminated two or more players at once.
C4_Witness == Cardinality(results.eliminations) >= 2

\* C5: no alive player ever has points <= -10, and a resolution that runs
\* the penalty pass raises eliminatedCount by exactly the number of players
\* it marks not-alive.
C5_EliminatedInSameResolution ==
    /\ [](\A p \in Players : points[p] <= -10 => ~isAlive[p])
    /\ [][Resolved /\ ~SuddenDeath(roundNumbers', isAlive)
            => eliminatedCount' - eliminatedCount =
                  Cardinality({p \in Players : isAlive[p] /\ ~isAlive'[p]})]_vars

\* C5 witness: the last resolution eliminated a player who reached exactly
\* the floor.
C5_Witness ==
    \E p \in results.eliminations : points[p] = -10 /\ ~isAlive[p]

\* C6 as stated: the session is finished (gameOver reported, session
\* deleted) exactly when at most one player is alive.
C6_FinishedIffOneAlive ==
    /\ Room \notin games <=> results.gameOver
    /\ Room \notin games <=> Cardinality({p \in Players : isAlive[p]}) <= 1

\* C6 amended: the session is finished exactly when at most one player is
\* alive or its last resolution took the 2-player shortcut.
C6_FinishedIffOneAliveOrSuddenDeath ==
    /\ Room \notin games <=> results.gameOver
    /\ Room \notin games <=>
          \/ Cardinality({p \in Players : isAlive[p]}) <= 1
          \/ results.specialRule

\* C6 witness: a session finished by elimination with one survivor.
C6_Witness ==
    /\ Room \notin games
    /\ ~results.specialRule
    /\ Cardinality({p \in Players : isAlive[p]}) = 1

\* C7 as stated: every key of roundNumbers is an alive player.
C7_KeysAlive == Keys(roundNumbers) \subseteq {p \in Players : isAlive[p]}

\* C7 amended: every key of roundNumbers is a player who is alive or was
\* eliminated by the most recent resolution.
C7_KeysAliveOrJustEliminated ==
    Keys(roundNumbers) \subseteq
        {p \in Players : isAlive[p]} \cup results.eliminations

\* C7 witness: the Map still holds the entry of a player the last
\* resolution eliminated.
C7_Witness ==
    \E p \in Keys(roundNumbers) : ~isAlive[p] /\ p \in results.eliminations

\* C8: a resolution with exactly 2 alive players whose numbers are 0 and
\* 100 returns the player holding 100 as winner with gameOver, and changes
\* no points, isAlive or eliminatedCount.
C8_SuddenDeath ==
    [][Resolved /\ SuddenDeath(roundNumbers', isAlive)
         => /\ results'.winner \in Keys(roundNumbers')
            /\ NumberOf(roundNumbers', results'.winner) = 100
            /\ results'.gameOver
            /\ points' = points
            /\ isAlive' = isAlive
            /\ eliminatedCount' = eliminatedCount]_vars

\* C8 witness: the shortcut ended a session with both players still alive.
C8_Witness ==
    /\ results.specialRule
    /\ Room \notin games
    /\ NumberSet(roundNumbers) = {0, 100}
    /\ Cardinality({p \in Players : isAlive[p]}) = 2

\* C9: in a resolution without the shortcut the winner keeps their points
\* and every other submitting player loses 1 point, or 2 points when 3
\* players are alive and the player's number equals the target
\* (number = 0.8 * sum / 3, i.e. 15 * number = 4 * sum).
C9_PenaltyAmounts ==
    [][Resolved /\ ~SuddenDeath(roundNumbers', isAlive)
         => \A p \in Keys(roundNumbers') :
               points'[p] - points[p] =
                  IF p = results'.winner THEN 0
                  ELSE IF /\ Cardinality({q \in Players : isAlive[q]}) = 3
                          /\ 15 * NumberOf(roundNumbers', p)
                                = 4 * SumSeq(NumbersOf(roundNumbers'))
                       THEN -2
                       ELSE -1]_vars

\* C9 witness: with 3 players alive a resolution had a winner and took 2
\* points from a player whose number was the target (numbers 4, 4, 7).
C9_Witness ==
    /\ Len(roundNumbers) = 3
    /\ results.winner # Null
    /\ NumberOf(roundNumbers, results.winner) = 7
    /\ \E p \in Keys(roundNumbers) :
          /\ NumberOf(roundNumbers, p) = 4
          /\ 15 * 4 = 4 * SumSeq(NumbersOf(roundNumbers))
          /\ points[p] = -11

\* C10: in a resolution with at most 4 alive players the winner holds a
\* number no other player submitted.
C10_NoDuplicateWinnerUpToFour ==
    [][(/\ Resolved
        /\ ~SuddenDeath(roundNumbers', isAlive)
        /\ Cardinality({p \in Players : isAlive[p]}) <= 4
        /\ results'.winner # Null)
         => results'.winner \notin Sharing(roundNumbers')]_vars

\* C10 witness: with 5 alive players the winner of a resolution holds a
\* number that another player submitted too.
C10_Witness ==
    /\ Len(roundNumbers) = 5
    /\ results.winner \in Sharing(roundNumbers)

\* The entries of rn the winner loop considers: all with 5 alive players,
\* those whose number no other entry holds with at most 4.
Eligible(rn, alive) ==
    {i \in 1..Len(rn) :
        \/ Cardinality({p \in Players : alive[p]}) > 4
        \/ \A j \in 1..Len(rn) : j # i => rn[j].number # rn[i].number}

\* |number - target| of entry i, times 5 * Len(rn).
Off(rn, i) ==
    LET d == 5 * Len(rn) * rn[i].number - 4 * SumSeq(NumbersOf(rn))
    IN IF d < 0 THEN -d ELSE d

\* Entry i is the first of the eligible entries nearest to the target.
FirstNearest(rn, alive, i) ==
    /\ i \in Eligible(rn, alive)
    /\ \A j \in Eligible(rn, alive) :
          /\ Off(rn, i) <= Off(rn, j)
          /\ Off(rn, j) = Off(rn, i) => i <= j

\* A submission keeps the entries already in the Map in their positions.
PositionsKept ==
    /\ Len(roundNumbers') >= Len(roundNumbers)
    /\ \A i \in 1..Len(roundNumbers) : roundNumbers'[i].id = roundNumbers[i].id

\* C11 as stated: in every resolution without the shortcut the winner is
\* the first, in the Map's order, of the eligible entries nearest to the
\* target, and a resubmission keeps its position in that order.
C11_WinnerIsFirstNearest ==
    /\ [][Resolved /\ ~SuddenDeath(roundNumbers', isAlive)
            => \E i \in 1..Len(roundNumbers') :
                  /\ FirstNearest(roundNumbers', isAlive, i)
                  /\ results'.winner = roundNumbers'[i].id]_vars
    /\ [][PositionsKept]_vars

\* C11 amended: the same whenever some entry is eligible; when none is
\* (at most 4 alive and every number shared) the winner is null.
C11_WinnerIsFirstNearestIfAny ==
    /\ [][Resolved /\ ~SuddenDeath(roundNumbers', isAlive)
            => IF Eligible(roundNumbers', isAlive) = {}
               THEN results'.winner = Null
               ELSE \E i \in 1..Len(roundNumbers') :
                       /\ FirstNearest(roundNumbers', isAlive, i)
                       /\ results'.winner = roundNumbers'[i].id]_vars
    /\ [][PositionsKept]_vars

\* C11 witness: 3 alive players hold 3, 5 and 7; the entries with 3 and 5
\* tie at distance 1 from the target 4 and a winner was returned.
C11_Witness ==
    /\ timers = 1
    /\ Len(roundNumbers) = 3
    /\ NumberSet(roundNumbers) = {3, 5, 7}
    /\ results.winner \in Keys(roundNumbers)
    /\ NumberOf(roundNumbers, results.winner) \in {3, 5}

\* Everything but the reply to the requesting socket.
lobbyState ==
    <<waitingRooms, players, games, points, isAlive, round, eliminatedCount,
      currentPhase, roundNumbers, timers, results>>

\* C12: a joinRoom naming the room that already holds 5 players is answered
\* 'Room is full', a joinRoom naming an unknown code 'Room not found', and
\* neither changes any room or session state.
C12_FullRoomRejected ==
    /\ [][\A id \in Sockets :
             JoinRoom(id) /\ Cardinality(players) = Quorum
                => reply' = "Room is full" /\ UNCHANGED lobbyState]_vars
    /\ [][\A id \in Sockets :
             JoinRoom(id) /\ players = {} /\ Room \notin DOMAIN waitingRooms
                => reply' = "Room not found" /\ UNCHANGED lobbyState]_vars

\* C13: a session appears in games only in a joinRoom step that brings the
\* waiting room to 5 distinct players, that step removes the waiting room
\* and makes those 5 the session's players, a waiting room never holds 5
\* players, and the session's player set never changes afterwards.
C13_StartOnlyAtQuorum ==
    /\ [][Room \notin games /\ Room \in games'
            => /\ Room \in DOMAIN waitingRooms
               /\ Room \notin DOMAIN waitingRooms'
               /\ reply' = "joinedRoom"
               /\ Cardinality(waitingRooms[Room]) = Quorum - 1
               /\ Cardinality(players') = Quorum
               /\ waitingRooms[Room] \subseteq players']_vars
    /\ [](Room \in DOMAIN waitingRooms
            => Cardinality(waitingRooms[Room]) < Quorum /\ Room \notin games)
    /\ [](Room \in games => Cardinality(players) = Quorum)
    /\ [][players # {} => players' = players]_vars

\* C13 witness: the session the fifth join created has resolved a round
\* and started the next with its 5 players.
C13_Witness ==
    /\ Room \in games
    /\ Cardinality(players) = Quorum
    /\ round = 2
    /\ reply = "joinedRoom"

\* C14: with every armed timer firing and every alive player submitting in
\* every round, a started game eventually delivers a result with gameOver
\* set and is removed from games.
C14_Terminates ==
    (Room \in games) ~> (Room \notin games /\ results.gameOver)

\* C14 witness: a game that ran into a later round has ended and is removed.
C14_Witness ==
    /\ Room \notin games
    /\ results.gameOver
    /\ round > 11
    /\ timers = 0

\* C15: no step increases any player's points.
C15_PointsNeverIncrease ==
    [][\A p \in Players : points'[p] <= points[p]]_vars

\* C15 witness: player 1, who starts a session with at least -6 points, has
\* lost points in several resolutions and is still alive.
C15_Witness ==
    /\ results # NoResults
    /\ isAlive[1]
    /\ points[1] = -8

\* C16: a player whose isAlive is false has isAlive false after every step.
C16_EliminationPermanent ==
    [][\A p \in Players : ~isAlive[p] => ~isAlive'[p]]_vars

\* C16 witness: in the session that started with all 5 players alive, a
\* player eliminated in an earlier resolution is still eliminated after a
\* later resolution has eliminated another.
C16_Witness ==
    /\ points[1] > -4
    /\ results.eliminations # {}
    /\ \E p \in Players : ~isAlive[p] /\ p \notin results.eliminations

\* C17: a round is resolved at most once: calculateRoundResults runs only
\* in the step whose submission completes the round, never from a
\* roundNumbers that already holds a number of every alive player (a round
\* complete before the step has been resolved by the step that completed
\* it), so that no player is penalized twice for one round.
C17_RoundResolvedOnce ==
    [][Resolved => ~AllSubmitted(roundNumbers, isAlive)]_vars

\* C18: at most one next-round timer of the session is pending.
C18_OneTimerPending == timers <= 1

\* C19: a result with gameOver set names a winner who is a player of the
\* session and alive, and when exactly one player is left alive the winner
\* is that player.
C19_GameOverWinnerAlive ==
    results.gameOver =>
        /\ results.winner \in Players
        /\ isAlive[results.winner]
        /\ (AliveCount(isAlive) = 1
              => GetAlivePlayers(isAlive) = {results.winner})

\* C20: every player's points are in -11..0 in every state, and no step
\* changes the points of a player who is eliminated.
C20_PointsRange ==
    /\ [](\A p \in Players : points[p] \in -11..0)
    /\ [][\A p \in Players : ~isAlive[p] => points'[p] = points[p]]_vars

\* C20 witness: a player eliminated at -11 by a doubled penalty keeps -11
\* after a later resolution.
C20_Witness ==
    /\ results # NoResults
    /\ \E p \in Players :
          /\ ~isAlive[p]
          /\ points[p] = -11
          /\ p \notin results.eliminations

====
